---- MODULE Spec2Model ----
(***************************************************************************)
(* Task-management backend: the project and task routers over the          *)
(* relational store (users, projects, tasks), with the notification        *)
(* calls the task router makes after a commit.                             *)
(*                                                                         *)
(* One request handler is one atomic step: it reads the store, decides     *)
(* the response and commits.  Every handler is an operator that returns    *)
(* the response together with the tables as they are after the request;    *)
(* the action of the same request installs that result.                    *)
(***************************************************************************)
EXTENDS Integers, Sequences, FiniteSets, TLC

VARIABLES users, projects, tasks, nextProjectId, nextTaskId, now, resp, jobs,
          flight

vars == <<users, projects, tasks, nextProjectId, nextTaskId, now, resp, jobs,
          flight>>

(***************************************************************************)
(* Bounds of the model.                                                    *)
(***************************************************************************)
\* projects and tasks ever created
MaxProjects == 1
MaxTasks == 1
\* instants of a calendar day, and the last instant a due date may name
TicksPerDay == 2
MaxInstant == 2
\* notification jobs ever enqueued
MaxJobs == 1
\* deliveries of one message after the first
MaxRedeliveries == 1

(***************************************************************************)
(* Values.                                                                 *)
(***************************************************************************)
\* Python None / SQL NULL in an integer or timestamp position
NULL == 0 - 1
\* a field left out of a PATCH body, in an integer or timestamp position
UNSET == 0 - 2
\* Python None in a string position, and a string field left out of a body
NONE == "<None>"
UNSET_S == "<unset>"

TaskStatus == {"todo", "in_progress", "done"}
TaskPriority == {"low", "medium", "high"}

\* position of a priority in the ENUM column, which is how the store orders it
PriorityIndex(p) ==
    CASE p = "low" -> 1
      [] p = "medium" -> 2
      [] p = "high" -> 3

\* the addresses users register with, in the order they are first used;
\* an address registers once, so there are as many users at most
EmailList == <<"a@x.com", "b@x.com">>
UserIds == 1..Len(EmailList)
ProjectIds == 1..MaxProjects
TaskIds == 1..MaxTasks
Instants == 0..MaxInstant
DayOf(ts) == ts \div TicksPerDay
Days == {DayOf(ts) : ts \in Instants}

NoEvents == <<>>
NoArgs == [none |-> TRUE]

\* the table `t` without the rows whose key is in `gone`
Without(t, gone) == [k \in (DOMAIN t) \ gone |-> t[k]]
\* the table `t` with one more row
WithRow(t, k, row) == [x \in (DOMAIN t) \cup {k} |-> IF x = k THEN row ELSE t[x]]

SeqSet(s) == {s[i] : i \in DOMAIN s}

(***************************************************************************)
(* Initial state: the tables as create_all leaves them.                    *)
(***************************************************************************)
EmptyTable == [k \in {} |-> NoArgs]

\* the workers that serve requests side by side, and a worker that is
\* not inside a request
Workers == {"w1", "w2"}
Idle == [pc |-> "idle"]
NoFlights == [w \in Workers |-> Idle]

NoResponse ==
    [op |-> "none", user |-> NULL, id |-> NULL, args |-> NoArgs,
     status |-> 0, body |-> <<>>, events |-> NoEvents]

Init ==
    /\ users = EmptyTable
    /\ projects = EmptyTable
    /\ tasks = EmptyTable
    /\ nextProjectId = 1
    /\ nextTaskId = 1
    /\ now = 0
    /\ resp = NoResponse
    /\ jobs = <<>>
    /\ flight = NoFlights

\* the outcome of one request: the response and the tables after it
Outcome(status, body, events, us, ps, ts) ==
    [status |-> status, body |-> body, events |-> events,
     users |-> us, projects |-> ps, tasks |-> ts]

\* a request that raises: nothing is committed
Refuse(status) == Outcome(status, <<>>, NoEvents, users, projects, tasks)

(***************************************************************************)
(* POST /register                                                          *)
(***************************************************************************)
\* the check for a stored user left out
EmailTaken_Never(email) == FALSE

\* db.query(User).filter(User.email == user.email).first()
EmailTaken(email) == \E u \in DOMAIN users : users[u].email = email

\* the unique index on users.email accepts the insert
UniqueEmailHolds(email) == \A u \in DOMAIN users : users[u].email # email

register(email) ==
    IF EmailTaken(email)
    THEN Refuse(400)
    ELSE LET id == Cardinality(DOMAIN users) + 1
         IN  Outcome(200, <<id>>, NoEvents,
                     WithRow(users, id, [email |-> email]), projects, tasks)

(***************************************************************************)
(* Projects router.                                                        *)
(***************************************************************************)
\* the owner check left out
IsProjectOwner_AnyUser(u, p) == TRUE

\* project.owner_id == current_user.id, the one rule of get, update, delete
IsProjectOwner(u, p) == projects[p].owner_id = u

\* response_model=ProjectOut: description is a str, so a project whose
\* description is NULL cannot be serialized and the response is a 500
ProjectOutAccepts(row) == row.description # NONE

create_project(u, title, description) ==
    Outcome(201, <<nextProjectId>>, NoEvents, users,
            WithRow(projects, nextProjectId,
                    [title |-> title, description |-> description,
                     owner_id |-> u]),
            tasks)

\* the rows GET /projects/ selects
OwnedProjects(u) == {p \in DOMAIN projects : projects[p].owner_id = u}

get_project(u, p) ==
    IF p \notin DOMAIN projects THEN Refuse(404)
    ELSE IF ~IsProjectOwner(u, p) THEN Refuse(403)
    ELSE IF ~ProjectOutAccepts(projects[p]) THEN Refuse(500)
    ELSE Outcome(200, <<p>>, NoEvents, users, projects, tasks)

\* dict() without exclude_unset: a field the body leaves out is None
ProjectAfterUpdate_AllFields(row, upd) ==
    [row EXCEPT
       !.title = IF upd.title = UNSET_S THEN NONE ELSE upd.title,
       !.description =
           IF upd.description = UNSET_S THEN NONE ELSE upd.description]

\* an owner_id among the fields of the body, None when left out
ProjectAfterUpdate_ResetsOwner(row, upd) ==
    [row EXCEPT
       !.title = IF upd.title = UNSET_S THEN @ ELSE upd.title,
       !.description = IF upd.description = UNSET_S THEN @ ELSE upd.description,
       !.owner_id = NULL]

\* exclude_unset: the fields the body names, applied one by one
ProjectAfterUpdate(row, upd) ==
    [row EXCEPT
       !.title = IF upd.title = UNSET_S THEN @ ELSE upd.title,
       !.description = IF upd.description = UNSET_S THEN @ ELSE upd.description]

\* projects.title is NOT NULL
ProjectRowAccepted(row) == row.title # NONE

update_project(u, p, upd) ==
    IF p \notin DOMAIN projects THEN Refuse(404)
    ELSE IF ~IsProjectOwner(u, p) THEN Refuse(403)
    ELSE LET row == ProjectAfterUpdate(projects[p], upd)
         IN  IF ~ProjectRowAccepted(row) THEN Refuse(500)
             ELSE Outcome(IF ProjectOutAccepts(row) THEN 200 ELSE 500,
                          IF ProjectOutAccepts(row) THEN <<p>> ELSE <<>>,
                          NoEvents, users,
                          [projects EXCEPT ![p] = row], tasks)

\* a relationship without the delete cascade
CascadeTasks_None(p) == {}

\* cascade="all, delete-orphan": the project's tasks go with it
CascadeTasks(p) == {t \in DOMAIN tasks : tasks[t].project_id = p}

delete_project(u, p) ==
    IF p \notin DOMAIN projects THEN Refuse(404)
    ELSE IF ~IsProjectOwner(u, p) THEN Refuse(403)
    ELSE Outcome(200, <<>>, NoEvents, users,
                 Without(projects, {p}), Without(tasks, CascadeTasks(p)))

(***************************************************************************)
(* Tasks router.                                                           *)
(***************************************************************************)
\* task.project.owner_id == current_user.id
OwnsProjectOf(u, t) ==
    /\ tasks[t].project_id \in DOMAIN projects
    /\ projects[tasks[t].project_id].owner_id = u
\* task.assigned_user_id == current_user.id
IsAssignee(u, t) == tasks[t].assigned_user_id = u

\* the authorization check of get_task
CanViewTask(u, t) == OwnsProjectOf(u, t) \/ IsAssignee(u, t)
\* update_task open to the project owner only
CanUpdateTask_OwnerOnly(u, t) == OwnsProjectOf(u, t)

\* the authorization check of update_task
CanUpdateTask(u, t) == OwnsProjectOf(u, t) \/ IsAssignee(u, t)
\* delete_task with the rule of update_task
CanDeleteTask_AsUpdate(u, t) == OwnsProjectOf(u, t) \/ IsAssignee(u, t)

\* the authorization check of delete_task
CanDeleteTask(u, t) == OwnsProjectOf(u, t)

\* a tasks table without its foreign keys
TaskForeignKeysHold_Unchecked(row) == TRUE

\* the foreign keys of a task row: projects.id, and users.id when assigned
TaskForeignKeysHold(row) ==
    /\ row.project_id \in DOMAIN projects
    /\ row.assigned_user_id # NULL => row.assigned_user_id \in DOMAIN users

\* the NOT NULL columns of a task row
TaskNotNullHolds(row) ==
    /\ row.title # NONE
    /\ row.status # NONE
    /\ row.priority # NONE

\* a call of send_email_notification_safely, as the router makes it
AssignmentEvent(t, target, actor) ==
    [kind |-> "assignment", task_id |-> t, target |-> target, actor |-> actor,
     old_status |-> NONE, new_status |-> NONE]

StatusChangeEvent(t, target, actor, old, new) ==
    [kind |-> "status_change", task_id |-> t, target |-> target,
     actor |-> actor, old_status |-> old, new_status |-> new]

\* the row create_task inserts; a status or priority of None takes the
\* column default
NewTaskRow(f) ==
    [title |-> f.title, description |-> f.description,
     status |-> IF f.status = NONE THEN "todo" ELSE f.status,
     priority |-> IF f.priority = NONE THEN "medium" ELSE f.priority,
     due_date |-> f.due_date, project_id |-> f.project_id,
     assigned_user_id |-> f.assigned_user_id,
     created_at |-> now, updated_at |-> now]

\* create_task that notifies whoever is assigned, the actor included
create_task_NotifyActor(u, f) ==
    LET row == NewTaskRow(f)
    IN  IF ~TaskForeignKeysHold(row) THEN Refuse(500)
        ELSE Outcome(200, <<nextTaskId>>,
                     IF row.assigned_user_id # NULL
                     THEN <<AssignmentEvent(nextTaskId, row.assigned_user_id, u)>>
                     ELSE NoEvents,
                     users, projects, WithRow(tasks, nextTaskId, row))

\* the owner of the target project alone may create a task in it
create_task_OwnerOnly(u, f) ==
    LET row == NewTaskRow(f)
    IN  IF ~TaskForeignKeysHold(row) THEN Refuse(500)
        ELSE IF ~IsProjectOwner(u, row.project_id) THEN Refuse(403)
        ELSE Outcome(200, <<nextTaskId>>,
                     IF row.assigned_user_id # NULL /\ row.assigned_user_id # u
                     THEN <<AssignmentEvent(nextTaskId, row.assigned_user_id, u)>>
                     ELSE NoEvents,
                     users, projects, WithRow(tasks, nextTaskId, row))

create_task(u, f) ==
    LET row == NewTaskRow(f)
    IN  IF ~TaskForeignKeysHold(row) THEN Refuse(500)
        ELSE Outcome(200, <<nextTaskId>>,
                     IF row.assigned_user_id # NULL /\ row.assigned_user_id # u
                     THEN <<AssignmentEvent(nextTaskId, row.assigned_user_id, u)>>
                     ELSE NoEvents,
                     users, projects, WithRow(tasks, nextTaskId, row))

get_task(u, t) ==
    IF t \notin DOMAIN tasks THEN Refuse(404)
    ELSE IF ~CanViewTask(u, t) THEN Refuse(403)
    ELSE Outcome(200, <<t>>, NoEvents, users, projects, tasks)

\* dict() without exclude_unset: a field the body leaves out is None
TaskAfterUpdate_AllFields(row, upd) ==
    [row EXCEPT
       !.title = IF upd.title = UNSET_S THEN NONE ELSE upd.title,
       !.description = IF upd.description = UNSET_S THEN NONE ELSE upd.description,
       !.status = IF upd.status = UNSET_S THEN NONE ELSE upd.status,
       !.priority = IF upd.priority = UNSET_S THEN NONE ELSE upd.priority,
       !.due_date = IF upd.due_date = UNSET THEN NULL ELSE upd.due_date,
       !.assigned_user_id =
           IF upd.assigned_user_id = UNSET THEN NULL ELSE upd.assigned_user_id]

\* exclude_unset: setattr for each field the body names
TaskAfterUpdate(row, upd) ==
    [row EXCEPT
       !.title = IF upd.title = UNSET_S THEN @ ELSE upd.title,
       !.description = IF upd.description = UNSET_S THEN @ ELSE upd.description,
       !.status = IF upd.status = UNSET_S THEN @ ELSE upd.status,
       !.priority = IF upd.priority = UNSET_S THEN @ ELSE upd.priority,
       !.due_date = IF upd.due_date = UNSET THEN @ ELSE upd.due_date,
       !.assigned_user_id =
           IF upd.assigned_user_id = UNSET THEN @ ELSE upd.assigned_user_id]

\* the flush writes the row when an attribute that was set compares unequal
\* to the value loaded: a changed value, or any status or priority, which
\* arrives as a member of the schema's enum and is compared with a member of
\* the model's enum
RowWritten(old, new, upd) ==
    \/ new # old
    \/ upd.status # UNSET_S
    \/ upd.priority # UNSET_S

\* onupdate=datetime.utcnow: set when the flush writes the row
TouchUpdatedAt(old, new, upd) ==
    IF RowWritten(old, new, upd) THEN [new EXCEPT !.updated_at = now] ELSE new

\* the status change sent to the assignee the task had before the update
UpdateEvents_OldAssignee(u, t, upd, old, new) ==
    (IF /\ upd.status # UNSET_S
        /\ old.status # new.status
        /\ old.assigned_user_id # NULL
        /\ old.assigned_user_id # u
     THEN <<StatusChangeEvent(t, old.assigned_user_id, u,
                              old.status, new.status)>>
     ELSE <<>>)
    \o
    (IF /\ upd.assigned_user_id # UNSET
        /\ old.assigned_user_id # new.assigned_user_id
        /\ new.assigned_user_id # NULL
     THEN <<AssignmentEvent(t, new.assigned_user_id, u)>>
     ELSE <<>>)

\* elif in the place of the second if: one call per update at most
UpdateEvents_OneEvent(u, t, upd, old, new) ==
    IF /\ upd.status # UNSET_S
       /\ old.status # new.status
       /\ new.assigned_user_id # NULL
       /\ new.assigned_user_id # u
    THEN <<StatusChangeEvent(t, new.assigned_user_id, u,
                             old.status, new.status)>>
    ELSE IF /\ upd.assigned_user_id # UNSET
            /\ old.assigned_user_id # new.assigned_user_id
            /\ new.assigned_user_id # NULL
         THEN <<AssignmentEvent(t, new.assigned_user_id, u)>>
         ELSE <<>>

\* the calls after the commit of update_task, status change first
UpdateEvents(u, t, upd, old, new) ==
    (IF /\ upd.status # UNSET_S
        /\ old.status # new.status
        /\ new.assigned_user_id # NULL
        /\ new.assigned_user_id # u
     THEN <<StatusChangeEvent(t, new.assigned_user_id, u,
                              old.status, new.status)>>
     ELSE <<>>)
    \o
    (IF /\ upd.assigned_user_id # UNSET
        /\ old.assigned_user_id # new.assigned_user_id
        /\ new.assigned_user_id # NULL
     THEN <<AssignmentEvent(t, new.assigned_user_id, u)>>
     ELSE <<>>)

\* update_task that makes its notification calls before the commit
update_task_NotifyBeforeCommit(u, t, upd) ==
    IF t \notin DOMAIN tasks THEN Refuse(404)
    ELSE IF ~CanUpdateTask(u, t) THEN Refuse(403)
    ELSE LET old == tasks[t]
             new == TouchUpdatedAt(old, TaskAfterUpdate(old, upd), upd)
         IN  IF ~(TaskNotNullHolds(new) /\ TaskForeignKeysHold(new))
             THEN Outcome(500, <<>>, UpdateEvents(u, t, upd, old, new),
                          users, projects, tasks)
             ELSE Outcome(200, <<t>>, UpdateEvents(u, t, upd, old, new),
                          users, projects, [tasks EXCEPT ![t] = new])

update_task(u, t, upd) ==
    IF t \notin DOMAIN tasks THEN Refuse(404)
    ELSE IF ~CanUpdateTask(u, t) THEN Refuse(403)
    ELSE LET old == tasks[t]
             new == TouchUpdatedAt(old, TaskAfterUpdate(old, upd), upd)
         IN  IF ~(TaskNotNullHolds(new) /\ TaskForeignKeysHold(new))
             THEN Refuse(500)
             ELSE Outcome(200, <<t>>, UpdateEvents(u, t, upd, old, new),
                          users, projects, [tasks EXCEPT ![t] = new])

\* delete_task that deletes before it checks the owner
delete_task_DeleteFirst(u, t) ==
    IF t \notin DOMAIN tasks THEN Refuse(404)
    ELSE Outcome(IF OwnsProjectOf(u, t) THEN 200 ELSE 403, <<>>, NoEvents,
                 users, projects, Without(tasks, {t}))

delete_task(u, t) ==
    IF t \notin DOMAIN tasks THEN Refuse(404)
    ELSE IF ~CanDeleteTask(u, t) THEN Refuse(403)
    ELSE Outcome(200, <<>>, NoEvents, users, projects, Without(tasks, {t}))

(***************************************************************************)
(* GET /tasks/ : visibility, filters, sorting, pagination.                 *)
(***************************************************************************)
DefaultLimit == 10

\* the due_date query parameter is a string: absent, empty, a YYYY-MM-DD
\* date, or some other text
NoDate == [fmt |-> "absent", day |-> 0]
EmptyDate == [fmt |-> "empty", day |-> 0]
OtherText == [fmt |-> "other", day |-> 0]
DateString(d) == [fmt |-> "YYYY-MM-DD", day |-> d]

\* Python truthiness of an Optional[str] and of an Optional[int]
TruthyStr(x) == x # NONE /\ x # ""
TruthyInt(x) == x # NULL /\ x # 0
TruthyDate(d) == d.fmt # "absent" /\ d.fmt # "empty"

\* datetime.strptime(due_date, "%Y-%m-%d"): midnight of the day named
ParsesAsDate(d) == d.fmt = "YYYY-MM-DD"
strptime(d) == d.day * TicksPerDay

DefaultQuery ==
    [status |-> NONE, priority |-> NONE, due_date |-> NoDate,
     project_id |-> NULL, sort_by |-> NONE,
     limit |-> DefaultLimit, offset |-> 0]

\* and_ in the place of or_
VisibleTo_OwnerAndAssignee(u, t) ==
    /\ tasks[t].project_id \in DOMAIN projects
    /\ projects[tasks[t].project_id].owner_id = u
    /\ tasks[t].assigned_user_id = u

\* or_(Project.owner_id == current_user.id,
\*     Task.assigned_user_id == current_user.id) over Task JOIN Project
VisibleTo(u, t) ==
    /\ tasks[t].project_id \in DOMAIN projects
    /\ \/ projects[tasks[t].project_id].owner_id = u
       \/ tasks[t].assigned_user_id = u

StatusFilter(t, s) == TruthyStr(s) => tasks[t].status = s
PriorityFilter(t, p) == TruthyStr(p) => tasks[t].priority = p
\* Task.due_date == due_date_obj; a NULL due date equals nothing
DueDateFilter(t, d) ==
    TruthyDate(d) =>
        (tasks[t].due_date # NULL /\ tasks[t].due_date = strptime(d))
ProjectFilter(t, p) == TruthyInt(p) => tasks[t].project_id = p

\* the rows the filtered query selects
Selected(u, q) ==
    {t \in DOMAIN tasks :
        /\ VisibleTo(u, t)
        /\ StatusFilter(t, q.status)
        /\ PriorityFilter(t, q.priority)
        /\ DueDateFilter(t, q.due_date)
        /\ ProjectFilter(t, q.project_id)}

SortKeys == {"priority", "due_date"}

\* the value ORDER BY compares; NULL due dates come first
SortKey(t, sort_by) ==
    IF sort_by = "priority" THEN PriorityIndex(tasks[t].priority)
    ELSE tasks[t].due_date

\* the orders the store may return the rows `S` in: any order without
\* ORDER BY, any order that ascends in the sort column with it
RowOrders(S, sort_by) ==
    {s \in [1..Cardinality(S) -> S] :
        /\ \A i, j \in 1..Cardinality(S) : i # j => s[i] # s[j]
        /\ sort_by \in SortKeys =>
             \A i, j \in 1..Cardinality(S) :
                 i < j => SortKey(s[i], sort_by) <= SortKey(s[j], sort_by)}

\* the limit applied, the offset forgotten
Page_NoOffset(s, offset, limit) ==
    [i \in 1..(IF Len(s) < limit THEN Len(s) ELSE limit) |-> s[i]]

\* query.offset(offset).limit(limit)
Page(s, offset, limit) ==
    [i \in 1..(IF Len(s) - offset < limit
               THEN (IF Len(s) - offset < 0 THEN 0 ELSE Len(s) - offset)
               ELSE limit) |-> s[offset + i]]

\* a sort_by that is given and is no sort key
InvalidSortBy(sort_by) == sort_by \notin SortKeys /\ TruthyStr(sort_by)

\* `order` is the order the store returns the selected rows in
list_tasks(u, q, order) ==
    IF TruthyDate(q.due_date) /\ ~ParsesAsDate(q.due_date) THEN Refuse(400)
    ELSE IF InvalidSortBy(q.sort_by) THEN Refuse(400)
    ELSE Outcome(200, Page(order, q.offset, q.limit), NoEvents,
                 users, projects, tasks)

\* GET /projects/
get_projects(u, order) ==
    IF \E p \in OwnedProjects(u) : ~ProjectOutAccepts(projects[p])
    THEN Refuse(500)
    ELSE Outcome(200, order, NoEvents, users, projects, tasks)

(***************************************************************************)
(* Notification jobs (Celery tasks).  A job is one call of delay(): its    *)
(* arguments, the retry count of its request, and what became of it.  One  *)
(* execution reads the store in one session, sends at most one message     *)
(* and either returns or asks for a retry.  `db` says whether the store    *)
(* answers the queries of the execution, `smtp` whether the mail server    *)
(* accepts the message.                                                    *)
(***************************************************************************)
max_retries == 3

\* EmailService.send_email: True when the message went out; a failure of
\* the transport is caught and answered False
send_email(smtp) == IF smtp = "ok" THEN "sent" ELSE "not_sent"

\* a missing entity handled like any other error: raised, hence retried
send_task_assignment_email_RaiseMissing(j, db, smtp) ==
    IF db = "error" THEN "db_error"
    ELSE IF \/ j.task_id \notin DOMAIN tasks
            \/ j.user_id \notin DOMAIN users
            \/ j.by_id \notin DOMAIN users
         THEN "error"
    ELSE send_email(smtp)

\* the body of send_task_assignment_email: how one execution ends
send_task_assignment_email(j, db, smtp) ==
    IF db = "error" THEN "db_error"
    ELSE IF j.task_id \notin DOMAIN tasks THEN "missing"
    ELSE IF j.user_id \notin DOMAIN users THEN "missing"
    ELSE IF j.by_id \notin DOMAIN users THEN "missing"
    ELSE IF tasks[j.task_id].project_id \notin DOMAIN projects THEN "missing"
    ELSE send_email(smtp)

\* a dispatcher that refuses a message it has executed before
send_task_status_change_email_OnceOnly(j, db, smtp) ==
    IF db = "error" THEN "db_error"
    ELSE IF j.runs > 0 THEN "error"
    ELSE IF j.task_id \notin DOMAIN tasks THEN "missing"
    ELSE IF j.user_id \notin DOMAIN users THEN "missing"
    ELSE IF j.by_id \notin DOMAIN users THEN "missing"
    ELSE IF tasks[j.task_id].project_id \notin DOMAIN projects THEN "missing"
    ELSE send_email(smtp)

\* the body of send_task_status_change_email
send_task_status_change_email(j, db, smtp) ==
    IF db = "error" THEN "db_error"
    ELSE IF j.task_id \notin DOMAIN tasks THEN "missing"
    ELSE IF j.user_id \notin DOMAIN users THEN "missing"
    ELSE IF j.by_id \notin DOMAIN users THEN "missing"
    ELSE IF tasks[j.task_id].project_id \notin DOMAIN projects THEN "missing"
    ELSE send_email(smtp)

\* the body of send_overdue_summary_to_user for the task ids j.task_ids:
\* with a task to list, the message cannot be composed, because
\* task.status is a member of the model's enum and has no title()
send_overdue_summary_to_user(j, db, smtp) ==
    IF db = "error" THEN "db_error"
    ELSE IF j.user_id \notin DOMAIN users THEN "missing"
    ELSE IF j.task_ids \cap DOMAIN tasks = {} THEN "missing"
    ELSE "error"

\* how an execution of the job ends
Body(j, db, smtp) ==
    CASE j.kind = "assignment" -> send_task_assignment_email(j, db, smtp)
      [] j.kind = "status_change" -> send_task_status_change_email(j, db, smtp)
      [] j.kind = "overdue_summary" -> send_overdue_summary_to_user(j, db, smtp)

\* self.retry(countdown=60 * 2 ** self.request.retries, exc=e): a new
\* request with the count raised, or the exception when the count has
\* reached max_retries
retry(j) ==
    IF j.retries >= max_retries
    THEN [j EXCEPT !.state = "failed"]
    ELSE [j EXCEPT !.state = "retry",
                   !.retries = @ + 1,
                   !.countdown = 60 * (2 ^ j.retries)]

\* a retry that is not counted against max_retries
Run_NoBudget(j, db, smtp) ==
    LET end == Body(j, db, smtp)
        ran == [j EXCEPT !.last = end]
    IN  CASE end \in {"db_error", "error"} ->
               [ran EXCEPT !.state = "retry", !.countdown = 60]
          [] end = "sent" ->
               [ran EXCEPT !.state = "returned", !.result = "True",
                           !.sent = @ + 1]
          [] OTHER -> [ran EXCEPT !.state = "returned", !.result = "False"]

\* the job after one execution
Run(j, db, smtp) ==
    LET end == Body(j, db, smtp)
        ran == [j EXCEPT !.runs = @ + 1, !.last = end]
    IN  CASE end \in {"db_error", "error"} -> retry(ran)
          [] end = "sent" ->
               [ran EXCEPT !.state = "returned", !.result = "True",
                           !.sent = @ + 1]
          [] OTHER -> [ran EXCEPT !.state = "returned", !.result = "False"]

\* the message delay() puts on the queue
NewJob(call) ==
    [kind |-> call.kind, task_id |-> call.task_id,
     task_ids |-> call.task_ids, user_id |-> call.user_id,
     by_id |-> call.by_id, retries |-> 0, countdown |-> 0,
     state |-> "queued", result |-> "none", last |-> "none",
     runs |-> 0, sent |-> 0]

\* datetime.now().date() as the database compares it with a DATETIME: the
\* midnight that begins the current day
today == DayOf(now) * TicksPerDay

\* overdue up to and including the midnight that begins today
OverdueTasks_DueToday(u) ==
    {t \in DOMAIN tasks :
        /\ tasks[t].project_id \in DOMAIN projects
        /\ \/ projects[tasks[t].project_id].owner_id = u
           \/ tasks[t].assigned_user_id = u
        /\ tasks[t].due_date # NULL
        /\ tasks[t].due_date <= today
        /\ tasks[t].status # "done"}

\* the query of send_daily_overdue_summary for one user: the tasks joined
\* with their project that the user owns or is assigned, due before today
\* (a task without a due date is not) and not done
OverdueTasks(u) ==
    {t \in DOMAIN tasks :
        /\ tasks[t].project_id \in DOMAIN projects
        /\ \/ projects[tasks[t].project_id].owner_id = u
           \/ tasks[t].assigned_user_id = u
        /\ tasks[t].due_date # NULL
        /\ tasks[t].due_date < today
        /\ tasks[t].status # "done"}

\* the orders in which db.query(User).all() may return the users
UserOrders ==
    {o \in [1..Cardinality(DOMAIN users) -> DOMAIN users] :
        \A i, k \in DOMAIN o : i # k => o[i] # o[k]}

\* the loop of send_daily_overdue_summary from the k-th user on: the calls
\* of send_overdue_summary_to_user.delay it makes.  An exception while the
\* fail-th user is handled (fail = 0: none) leaves the loop, the one try
\* block encloses all of it
RECURSIVE SummaryCalls(_, _, _)
SummaryCalls(order, k, fail) ==
    IF k > Len(order) \/ k = fail THEN <<>>
    ELSE (IF OverdueTasks(order[k]) # {}
          THEN <<[kind |-> "overdue_summary", task_id |-> NULL,
                  task_ids |-> OverdueTasks(order[k]),
                  user_id |-> order[k], by_id |-> NULL]>>
          ELSE <<>>)
         \o SummaryCalls(order, k + 1, fail)

\* total_overdue_tasks: len(overdue_tasks) added up over the calls made
RECURSIVE TotalOverdue(_)
TotalOverdue(calls) ==
    IF calls = <<>> THEN 0
    ELSE Cardinality(Head(calls).task_ids) + TotalOverdue(Tail(calls))

\* send_daily_overdue_summary: the calls it makes and what it returns,
\* <<emails_sent, total_overdue_tasks>> or, after an exception, the
\* error dictionary (no counts)
send_daily_overdue_summary(order, fail) ==
    LET calls == SummaryCalls(order, 1, fail)
    IN  [calls |-> calls,
         body |-> IF fail = 0 THEN <<Len(calls), TotalOverdue(calls)>>
                  ELSE <<>>]

\* the calls of delay() a handler makes for the events it emits: the
\* helper prints a line and returns True, it puts nothing on the queue
send_email_notification_safely(events) == <<>>

(***************************************************************************)
(* Requests.  A request installs the outcome of its handler and records    *)
(* what was asked and what was answered.                                   *)
(***************************************************************************)
Commit(op, u, id, args, out) ==
    /\ users' = out.users
    /\ projects' = out.projects
    /\ tasks' = out.tasks
    /\ nextProjectId' =
         IF op = "create_project" /\ out.status = 201
         THEN nextProjectId + 1 ELSE nextProjectId
    /\ nextTaskId' =
         IF op = "create_task" /\ out.status = 200
         THEN nextTaskId + 1 ELSE nextTaskId
    /\ now' = now
    /\ resp' = [op |-> op, user |-> u, id |-> id, args |-> args,
                status |-> out.status, body |-> out.body,
                events |-> out.events]
    /\ jobs' = jobs \o send_email_notification_safely(out.events)
    /\ flight' = flight

\* the addresses are interchangeable: a registration uses an address
\* already used or the first one not yet used
RegisterInputs ==
    {EmailList[i] : i \in 1..(IF Cardinality(DOMAIN users) < Len(EmailList)
                              THEN Cardinality(DOMAIN users) + 1
                              ELSE Len(EmailList))}

Register ==
    \E e \in RegisterInputs :
        Commit("register", NULL, NULL, [email |-> e], register(e))

CreateProject(titles) ==
    \E u \in DOMAIN users, title \in titles :
        /\ nextProjectId <= MaxProjects
        /\ Commit("create_project", u, NULL, NoArgs,
                  create_project(u, title, ""))

GetProjects ==
    \E u \in DOMAIN users :
        \E order \in RowOrders(OwnedProjects(u), NONE) :
            Commit("get_projects", u, NULL, NoArgs, get_projects(u, order))

GetProject ==
    \E u \in DOMAIN users, p \in ProjectIds :
        Commit("get_project", u, p, NoArgs, get_project(u, p))

UpdateProject(bodies) ==
    \E u \in DOMAIN users, p \in ProjectIds, upd \in bodies :
        Commit("update_project", u, p, upd, update_project(u, p, upd))

DeleteProject ==
    \E u \in DOMAIN users, p \in ProjectIds :
        Commit("delete_project", u, p, NoArgs, delete_project(u, p))

CreateTask(inputs) ==
    \E u \in DOMAIN users, f \in inputs :
        /\ nextTaskId <= MaxTasks
        /\ Commit("create_task", u, NULL, f, create_task(u, f))

ListTasks(queries) ==
    \E u \in DOMAIN users, q \in queries :
        \E order \in RowOrders(Selected(u, q), q.sort_by) :
            Commit("list_tasks", u, NULL, q, list_tasks(u, q, order))

GetTask ==
    \E u \in DOMAIN users, t \in TaskIds :
        Commit("get_task", u, t, NoArgs, get_task(u, t))

UpdateTask(bodies) ==
    \E u \in DOMAIN users, t \in TaskIds, upd \in bodies :
        Commit("update_task", u, t, upd, update_task(u, t, upd))

DeleteTask ==
    \E u \in DOMAIN users, t \in TaskIds :
        Commit("delete_task", u, t, NoArgs, delete_task(u, t))

\* a call of delay() on one of the jobs
Enqueue(calls) ==
    /\ Len(jobs) < MaxJobs
    /\ \E call \in calls : jobs' = Append(jobs, NewJob(call))
    /\ UNCHANGED <<users, projects, tasks, nextProjectId, nextTaskId, now, resp,
                   flight>>

\* the worker takes a job that is queued or due for a retry and executes it
Execute ==
    \E i \in DOMAIN jobs, db \in {"ok", "error"}, smtp \in {"ok", "error"} :
        /\ jobs[i].state \in {"queued", "retry"}
        /\ jobs' = [jobs EXCEPT ![i] = Run(jobs[i], db, smtp)]
        /\ UNCHANGED <<users, projects, tasks, nextProjectId, nextTaskId,
                       now, resp, flight>>

\* what a request answers, the stores left as they are
Answer(op, u, id, args, status, body) ==
    [op |-> op, user |-> u, id |-> id, args |-> args, status |-> status,
     body |-> body, events |-> NoEvents]

\* register up to its query for the address: it answers 400, or goes on
\* to the insert
RegisterCheck(w) ==
    \E e \in SeqSet(EmailList) :
        /\ flight[w].pc = "idle"
        /\ IF EmailTaken(e)
           THEN /\ resp' = Answer("register", NULL, NULL, [email |-> e],
                                  400, <<>>)
                /\ flight' = flight
           ELSE /\ flight' = [flight EXCEPT
                                ![w] = [pc |-> "insert", email |-> e]]
                /\ resp' = resp
        /\ UNCHANGED <<users, projects, tasks, nextProjectId, nextTaskId,
                       now, jobs>>

\* register from db.add to the answer: the insert is committed, or the
\* unique index refuses it and the exception becomes a 500
RegisterInsert(w) ==
    /\ flight[w].pc = "insert"
    /\ LET e == flight[w].email
           id == Cardinality(DOMAIN users) + 1
       IN  IF UniqueEmailHolds(e)
           THEN /\ users' = WithRow(users, id, [email |-> e])
                /\ resp' = Answer("register", NULL, NULL, [email |-> e],
                                  200, <<id>>)
           ELSE /\ users' = users
                /\ resp' = Answer("register", NULL, NULL, [email |-> e],
                                  500, <<>>)
    /\ flight' = [flight EXCEPT ![w] = Idle]
    /\ UNCHANGED <<projects, tasks, nextProjectId, nextTaskId, now, jobs>>

\* the fields a TaskUpdate body names
NamedFields(upd) ==
    {f \in {"title", "description", "status", "priority"} : upd[f] # UNSET_S}
    \cup {f \in {"due_date", "assigned_user_id"} : upd[f] # UNSET}

\* the columns the flush of update_task writes: the attributes set to a
\* value that differs from the one the session has loaded (a status or a
\* priority always differs: it is a member of the schema's enum)
ChangedFields(loaded, upd) ==
    {f \in NamedFields(upd) :
        f \in {"status", "priority"} \/ upd[f] # loaded[f]}

\* UPDATE tasks SET <changed columns>, updated_at = now WHERE id = ...,
\* applied to the row as it is stored when the statement runs
FlushUpdate(cur, loaded, upd) ==
    LET ch == ChangedFields(loaded, upd)
    IN  [cur EXCEPT
           !.title = IF "title" \in ch THEN upd.title ELSE @,
           !.description = IF "description" \in ch THEN upd.description ELSE @,
           !.status = IF "status" \in ch THEN upd.status ELSE @,
           !.priority = IF "priority" \in ch THEN upd.priority ELSE @,
           !.due_date = IF "due_date" \in ch THEN upd.due_date ELSE @,
           !.assigned_user_id =
               IF "assigned_user_id" \in ch THEN upd.assigned_user_id ELSE @,
           !.updated_at = IF ch # {} THEN now ELSE @]

\* update_task up to the setattr loop: the task is loaded, the user
\* checked against its project's owner and its assignee, the old values
\* kept and the attributes set in the session; nothing is written yet
UpdateLoad(w, bodies) ==
    \E u \in DOMAIN users, t \in TaskIds, upd \in bodies :
        /\ flight[w].pc = "idle"
        /\ IF t \notin DOMAIN tasks \/ ~CanUpdateTask(u, t)
           THEN /\ resp' = Answer("update_task", u, t, upd,
                                  IF t \notin DOMAIN tasks THEN 404 ELSE 403,
                                  <<>>)
                /\ flight' = flight
           ELSE /\ flight' = [flight EXCEPT
                                ![w] = [pc |-> "commit", user |-> u, id |-> t,
                                        upd |-> upd, loaded |-> tasks[t]]]
                /\ resp' = resp
        /\ UNCHANGED <<users, projects, tasks, nextProjectId, nextTaskId,
                       now, jobs>>

\* update_task from db.commit on: the flush writes the changed columns
\* (it finds no row when the task has been deleted since, and the store
\* may refuse the values), the task is refreshed from the store (it
\* cannot be when it has been deleted since), and the notification calls
\* compare the old values with the refreshed task
UpdateCommit(w) ==
    /\ flight[w].pc = "commit"
    /\ LET u == flight[w].user
           t == flight[w].id
           upd == flight[w].upd
           loaded == flight[w].loaded
       IN  IF t \notin DOMAIN tasks
           THEN /\ tasks' = tasks
                /\ resp' = Answer("update_task", u, t, upd, 500, <<>>)
           ELSE LET new == FlushUpdate(tasks[t], loaded, upd)
                IN  IF ~(TaskNotNullHolds(new) /\ TaskForeignKeysHold(new))
                    THEN /\ tasks' = tasks
                         /\ resp' = Answer("update_task", u, t, upd, 500,
                                           <<>>)
                    ELSE /\ tasks' = [tasks EXCEPT ![t] = new]
                         /\ resp' = [op |-> "update_task", user |-> u,
                                     id |-> t, args |-> upd, status |-> 200,
                                     body |-> <<t>>,
                                     events |->
                                       UpdateEvents(u, t, upd, loaded, new)]
    /\ flight' = [flight EXCEPT ![w] = Idle]
    /\ UNCHANGED <<users, projects, nextProjectId, nextTaskId, now, jobs>>

\* task_acks_late: the message of a job is acknowledged after the
\* execution, so a worker lost in between leaves it to be delivered, and
\* the job executed, once more
Redeliver ==
    \E i \in DOMAIN jobs, db \in {"ok", "error"}, smtp \in {"ok", "error"} :
        /\ jobs[i].state = "returned"
        /\ jobs[i].runs - jobs[i].retries <= MaxRedeliveries
        /\ jobs' = [jobs EXCEPT ![i] = Run(jobs[i], db, smtp)]
        /\ UNCHANGED <<users, projects, tasks, nextProjectId, nextTaskId,
                       now, resp, flight>>

\* one run of send_daily_overdue_summary
DailySummary ==
    \E order \in UserOrders, fail \in 0..Cardinality(DOMAIN users) :
        LET out == send_daily_overdue_summary(order, fail)
        IN  /\ jobs' = jobs \o [i \in DOMAIN out.calls |->
                                   NewJob(out.calls[i])]
            /\ resp' = [op |-> "daily_summary", user |-> NULL, id |-> NULL,
                        args |-> [order |-> order, fail |-> fail],
                        status |-> 0, body |-> out.body,
                        events |-> NoEvents]
            /\ UNCHANGED <<users, projects, tasks, nextProjectId,
                           nextTaskId, now, flight>>

(***************************************************************************)
(* Spec: every router, from the empty store, with small request bodies.    *)
(***************************************************************************)
ProjectTitles == {"P"}

ProjectBodies ==
    [title : {UNSET_S, NONE, "Q"}, description : {UNSET_S}]

TaskInputs ==
    [title : {"T"}, description : {NONE}, status : {NONE},
     priority : {NONE}, due_date : {NULL},
     project_id : ProjectIds, assigned_user_id : {NULL} \cup UserIds]

TaskBodies ==
    [title : {UNSET_S}, description : {UNSET_S},
     status : {UNSET_S, NONE}, priority : {UNSET_S},
     due_date : {UNSET}, assigned_user_id : {UNSET, NULL} \cup UserIds]

Next ==
    \/ Register
    \/ CreateProject(ProjectTitles)
    \/ GetProjects
    \/ GetProject
    \/ UpdateProject(ProjectBodies)
    \/ DeleteProject
    \/ CreateTask(TaskInputs)
    \/ ListTasks({DefaultQuery})
    \/ GetTask
    \/ UpdateTask(TaskBodies)
    \/ DeleteTask

Spec == Init /\ [][Next]_vars

(***************************************************************************)
(* SpecQuery: GET /tasks/ over the stores the routers can build.  The      *)
(* store is drawn from the stores with every user registered, every        *)
(* project created and up to MaxTasks tasks; the only request is the       *)
(* listing, with the defaults or with one parameter given.                 *)
(***************************************************************************)
QueryUsers == [u \in UserIds |-> [email |-> EmailList[u]]]

QueryProjects ==
    [p \in ProjectIds |->
        [title |-> "P", description |-> "",
         owner_id |-> ((p - 1) % Len(EmailList)) + 1]]

QueryRows ==
    [title : {"T"}, description : {NONE}, status : {"todo", "done"},
     priority : {"low", "high"}, due_date : {NULL} \cup Instants,
     project_id : ProjectIds, assigned_user_id : {NULL} \cup UserIds,
     created_at : {0}, updated_at : {0}]

InitQuery ==
    /\ users = QueryUsers
    /\ projects = QueryProjects
    /\ \E n \in 0..MaxTasks :
          /\ tasks \in [1..n -> QueryRows]
          /\ nextTaskId = n + 1
    /\ nextProjectId = MaxProjects + 1
    /\ now = 0
    /\ resp = NoResponse
    /\ jobs = <<>>
    /\ flight = NoFlights

\* the requests: the defaults, or one parameter given
Queries ==
    {DefaultQuery}
    \cup {[DefaultQuery EXCEPT !.status = x] : x \in {"", "todo", "done"}}
    \cup {[DefaultQuery EXCEPT !.priority = x] : x \in {"low", "high"}}
    \cup {[DefaultQuery EXCEPT !.due_date = x] :
             x \in {EmptyDate, OtherText} \cup {DateString(d) : d \in Days}}
    \cup {[DefaultQuery EXCEPT !.project_id = x] :
             x \in {0} \cup ProjectIds \cup {MaxProjects + 1}}
    \cup {[DefaultQuery EXCEPT !.sort_by = x] :
             x \in {"", "priority", "due_date", "title"}}
    \cup {[DefaultQuery EXCEPT !.limit = x] : x \in {0, 1}}
    \cup {[DefaultQuery EXCEPT !.offset = 1]}
    \cup {[DefaultQuery EXCEPT !.offset = 1, !.limit = 1]}
    \cup {[DefaultQuery EXCEPT !.sort_by = x, !.limit = 1] : x \in SortKeys}
    \cup {[DefaultQuery EXCEPT !.sort_by = x, !.offset = 1] : x \in SortKeys}
    \cup {[DefaultQuery EXCEPT !.status = "todo", !.offset = 1]}

\* the listing writes nothing, so one listing per store shows all it can do
NextQuery == resp.op = "none" /\ ListTasks(Queries)

SpecQuery == InitQuery /\ [][NextQuery]_vars

(***************************************************************************)
(* SpecUpdate: one PATCH of a task or of a project, over the stores the    *)
(* routers can build and at any instant of the clock.  A task was created  *)
(* at an instant, last written at that instant or a later one, and neither *)
(* is in the future.                                                       *)
(***************************************************************************)
UpdateRows(n) ==
    {r \in [title : {"T"}, description : {NONE}, status : {"todo", "done"},
            priority : {"medium"}, due_date : {NULL},
            project_id : ProjectIds, assigned_user_id : {NULL} \cup UserIds,
            created_at : 0..n, updated_at : 0..n] :
        r.created_at <= r.updated_at}

InitUpdate ==
    /\ users = QueryUsers
    /\ projects = QueryProjects
    /\ now \in Instants
    /\ \E n \in 0..MaxTasks :
          /\ tasks \in [1..n -> UpdateRows(now)]
          /\ nextTaskId = n + 1
    /\ nextProjectId = MaxProjects + 1
    /\ resp = NoResponse
    /\ jobs = <<>>
    /\ flight = NoFlights

\* a PATCH body that names no field
EmptyBody ==
    [title |-> UNSET_S, description |-> UNSET_S, status |-> UNSET_S,
     priority |-> UNSET_S, due_date |-> UNSET, assigned_user_id |-> UNSET]

\* the bodies: no field, one field, or the status with another field; a
\* null for every field, and an assignee that is no user
UpdateBodies ==
    {EmptyBody}
    \cup {[EmptyBody EXCEPT !.title = x] : x \in {NONE, "T", "U"}}
    \cup {[EmptyBody EXCEPT !.description = x] : x \in {NONE, "d"}}
    \cup {[EmptyBody EXCEPT !.status = x] : x \in {NONE, "todo", "done"}}
    \cup {[EmptyBody EXCEPT !.priority = x] : x \in {NONE, "medium", "high"}}
    \cup {[EmptyBody EXCEPT !.due_date = x] : x \in {NULL, 1}}
    \cup {[EmptyBody EXCEPT !.assigned_user_id = x] :
             x \in {NULL} \cup UserIds \cup {Len(EmailList) + 1}}
    \cup {[EmptyBody EXCEPT !.status = x, !.assigned_user_id = a] :
             x \in {"todo", "done"}, a \in {NULL} \cup UserIds}
    \cup {[EmptyBody EXCEPT !.status = "done", !.title = "U"]}
    \cup {[EmptyBody EXCEPT !.status = "done", !.title = "U",
                            !.priority = "high"]}

UpdateProjectBodies ==
    [title : {UNSET_S, NONE, "Q"}, description : {UNSET_S, NONE, "d"}]

NextUpdate ==
    /\ resp.op = "none"
    /\ \/ UpdateTask(UpdateBodies)
       \/ UpdateProject(UpdateProjectBodies)

SpecUpdate == InitUpdate /\ [][NextUpdate]_vars

(***************************************************************************)
(* SpecJobs: the notification jobs over the stores the routers can build.  *)
(* A job may name a task or a user that is not stored: the task was        *)
(* deleted since, or never was.                                            *)
(***************************************************************************)
\* an id that names no user
MissingUser == Len(EmailList) + 1

JobRows ==
    [title : {"T"}, description : {NONE}, status : {"todo"},
     priority : {"medium"}, due_date : {0}, project_id : ProjectIds,
     assigned_user_id : {NULL, 1}, created_at : {0}, updated_at : {0}]

InitJobs ==
    /\ users = QueryUsers
    /\ projects = QueryProjects
    /\ \E n \in 0..MaxTasks :
          /\ tasks \in [1..n -> JobRows]
          /\ nextTaskId = n + 1
    /\ nextProjectId = MaxProjects + 1
    /\ now = MaxInstant
    /\ resp = NoResponse
    /\ jobs = <<>>
    /\ flight = NoFlights

JobCalls ==
    {[kind |-> k, task_id |-> t, task_ids |-> {}, user_id |-> u,
      by_id |-> b] :
        k \in {"assignment", "status_change"}, t \in TaskIds,
        u \in {1, MissingUser}, b \in {2, MissingUser}}
    \cup {[kind |-> "overdue_summary", task_id |-> NULL, task_ids |-> {t},
           user_id |-> u, by_id |-> NULL] :
             t \in TaskIds, u \in {1, MissingUser}}

NextJobs ==
    \/ Enqueue(JobCalls)
    \/ Execute

SpecJobs == InitJobs /\ [][NextJobs]_vars

\* SpecJobsFair: a job of each kind and a worker that is running: a job
\* that is queued or due for a retry is executed in the end (the countdown
\* of a retry is finite)
FairCalls ==
    {[kind |-> k, task_id |-> 1, task_ids |-> {}, user_id |-> u,
      by_id |-> 2] :
        k \in {"assignment", "status_change"}, u \in {1, MissingUser}}
    \cup {[kind |-> "overdue_summary", task_id |-> NULL, task_ids |-> {1},
           user_id |-> 1, by_id |-> NULL]}

NextJobsFair ==
    \/ Enqueue(FairCalls)
    \/ Execute

SpecJobsFair == InitJobs /\ [][NextJobsFair]_vars /\ WF_vars(Execute)

(***************************************************************************)
(* SpecNotify: the task mutations that notify, next to the notification    *)
(* jobs of a worker.                                                       *)
(***************************************************************************)
InitNotify ==
    /\ users = QueryUsers
    /\ projects = QueryProjects
    /\ tasks = EmptyTable
    /\ nextTaskId = 1
    /\ nextProjectId = MaxProjects + 1
    /\ now = 0
    /\ resp = NoResponse
    /\ jobs = <<>>
    /\ flight = NoFlights

\* tasks for a project that is stored or not, assigned or not
NotifyInputs ==
    [title : {"T"}, description : {NONE}, status : {NONE},
     priority : {NONE}, due_date : {NULL},
     project_id : ProjectIds \cup {MaxProjects + 1},
     assigned_user_id : {NULL, 2}]

\* a new status, a new assignee, both, and a body the store rejects
NotifyBodies ==
    {[EmptyBody EXCEPT !.status = "done"],
     [EmptyBody EXCEPT !.assigned_user_id = 2]}
    \cup {[EmptyBody EXCEPT !.status = x, !.assigned_user_id = 2] :
             x \in {NONE, "done"}}

NotifyCalls ==
    {[kind |-> "assignment", task_id |-> 1, task_ids |-> {}, user_id |-> 2,
      by_id |-> 1]}

NextNotify ==
    \/ CreateTask(NotifyInputs)
    \/ UpdateTask(NotifyBodies)
    \/ Enqueue(NotifyCalls)
    \/ Execute

SpecNotify == InitNotify /\ [][NextNotify]_vars

(***************************************************************************)
(* SpecRegister: registrations served side by side, from the empty store,  *)
(* while the users already registered create and delete projects.          *)
(***************************************************************************)
NextRegister ==
    \/ \E w \in Workers :
          \/ RegisterCheck(w)
          \/ RegisterInsert(w)
    \/ CreateProject(ProjectTitles)
    \/ DeleteProject

SpecRegister == Init /\ [][NextRegister]_vars

(***************************************************************************)
(* SpecRace: updates of a task served side by side, next to the deletion   *)
(* of the task or of its project.  User 1 owns the projects; a task is     *)
(* assigned to user 2 or to nobody.                                        *)
(***************************************************************************)
RaceRows ==
    [title : {"T"}, description : {NONE}, status : {"todo"},
     priority : {"medium"}, due_date : {NULL}, project_id : ProjectIds,
     assigned_user_id : {NULL, 2}, created_at : {0}, updated_at : {0}]

InitRace ==
    /\ users = QueryUsers
    /\ projects = QueryProjects
    /\ \E n \in 0..MaxTasks :
          /\ tasks \in [1..n -> RaceRows]
          /\ nextTaskId = n + 1
    /\ nextProjectId = MaxProjects + 1
    /\ now = 1
    /\ resp = NoResponse
    /\ jobs = <<>>
    /\ flight = NoFlights

\* a title, the same or another, a status, and the assignee taken away
RaceBodies ==
    {[EmptyBody EXCEPT !.title = x] : x \in {"T", "U"}}
    \cup {[EmptyBody EXCEPT !.status = "done"],
          [EmptyBody EXCEPT !.assigned_user_id = NULL]}

NextRace ==
    \/ \E w \in Workers :
          \/ UpdateLoad(w, RaceBodies)
          \/ UpdateCommit(w)
    \/ DeleteTask
    \/ DeleteProject

SpecRace == InitRace /\ [][NextRace]_vars

(***************************************************************************)
(* SpecRedeliver: the notification jobs of SpecJobs with messages that are *)
(* delivered more than once.                                               *)
(***************************************************************************)
RedeliverCalls ==
    {[kind |-> k, task_id |-> 1, task_ids |-> {}, user_id |-> 1,
      by_id |-> 2] : k \in {"assignment", "status_change"}}

NextRedeliver ==
    \/ Enqueue(RedeliverCalls)
    \/ Execute
    \/ Redeliver

SpecRedeliver == InitJobs /\ [][NextRedeliver]_vars

(***************************************************************************)
(* SpecDaily: one run of the daily summary over the stores the routers can *)
(* build, at any time of any day.                                          *)
(***************************************************************************)
DailyRows ==
    [title : {"T"}, description : {NONE}, status : {"todo", "done"},
     priority : {"medium"}, due_date : {NULL} \cup Instants,
     project_id : ProjectIds, assigned_user_id : {NULL} \cup UserIds,
     created_at : {0}, updated_at : {0}]

InitDaily ==
    /\ users = QueryUsers
    /\ projects = QueryProjects
    /\ \E n \in 0..MaxTasks :
          /\ tasks \in [1..n -> DailyRows]
          /\ nextTaskId = n + 1
    /\ nextProjectId = MaxProjects + 1
    /\ now \in Instants
    /\ resp = NoResponse
    /\ jobs = <<>>
    /\ flight = NoFlights

NextDaily ==
    /\ resp.op = "none"
    /\ DailySummary

SpecDaily == InitDaily /\ [][NextDaily]_vars

(***************************************************************************)
(* Properties of the routers, checked under Spec.                          *)
(***************************************************************************)
\* the projects that were created and exist no more
DeletedProjects == {p \in 1..(nextProjectId - 1) : p \notin DOMAIN projects}
\* the tasks that were created and exist no more
DeletedTasks == {t \in 1..(nextTaskId - 1) : t \notin DOMAIN tasks}

ProjectOps == {"get_project", "update_project", "delete_project"}
TaskOps == {"get_task", "update_task", "delete_task"}

\* C1: once delete_project has succeeded for project p, the store holds no
\* task with project_id = p: the project and its tasks go in the same step,
\* no task of a deleted project is stored in any later state, and no
\* listing returns one.
C1_DeleteProjectCascades ==
    /\ \A t \in DOMAIN tasks : tasks[t].project_id \notin DeletedProjects
    /\ (resp.op = "delete_project" /\ resp.status = 200) =>
          /\ resp.id \notin DOMAIN projects
          /\ \A t \in DOMAIN tasks : tasks[t].project_id # resp.id
    /\ (resp.op = "list_tasks" /\ resp.status = 200) =>
          \A i \in DOMAIN resp.body :
              /\ resp.body[i] \in DOMAIN tasks
              /\ tasks[resp.body[i]].project_id \notin DeletedProjects

\* a project was deleted, and every task created is gone with it
C1_Witness ==
    /\ resp.op = "delete_project"
    /\ resp.status = 200
    /\ nextTaskId = MaxTasks + 1
    /\ DeletedTasks = TaskIds

\* C2: in every state every stored task's project_id names a stored
\* project, and a create_task whose project_id names no stored project
\* fails and stores no task.
C2_TaskBelongsToProject ==
    /\ [](\A t \in DOMAIN tasks : tasks[t].project_id \in DOMAIN projects)
    /\ [][(resp'.op = "create_task"
             /\ resp'.args.project_id \notin DOMAIN projects)
          => (resp'.status # 200 /\ tasks' = tasks
                /\ nextTaskId' = nextTaskId)]_vars

\* a create_task was refused for its project_id alone: the project it names
\* has been deleted
C2_Witness ==
    /\ resp.op = "create_task"
    /\ resp.status = 500
    /\ resp.args.project_id \in DeletedProjects
    /\ resp.args.assigned_user_id = NULL

\* C3: delete_task on a stored task removes it exactly when the acting
\* user owns the task's project; for any other user, the task's assignee
\* included, it answers 403 and the tasks are as before.
C3_DeleteTaskOwnerOnly ==
    [][(resp'.op = "delete_task" /\ resp'.id \in DOMAIN tasks)
       => IF projects[tasks[resp'.id].project_id].owner_id = resp'.user
          THEN resp'.status = 200 /\ tasks' = Without(tasks, {resp'.id})
          ELSE resp'.status = 403 /\ tasks' = tasks]_vars

\* the assignee of a task, who does not own its project, was refused
C3_Witness ==
    /\ resp.op = "delete_task"
    /\ resp.status = 403
    /\ resp.id \in DOMAIN tasks
    /\ tasks[resp.id].assigned_user_id = resp.user
    /\ projects[tasks[resp.id].project_id].owner_id # resp.user

\* a PATCH body the tasks table accepts: no None for a NOT NULL column, and
\* an assignee that is a stored user
TaskBodyAccepted(upd) ==
    /\ upd.title # NONE
    /\ upd.status # NONE
    /\ upd.priority # NONE
    /\ upd.assigned_user_id \in {UNSET, NULL} \cup DOMAIN users

\* C4: on a stored task, get_task and update_task answer 403 exactly to
\* the users who neither own the task's project nor are its assignee
\* before the request; the owner and the assignee, each alone, get 200
\* (update_task: 200 when the store accepts the body, 500 when it rejects
\* it).
C4_ViewUpdateOwnerOrAssignee ==
    [][(resp'.op \in {"get_task", "update_task"} /\ resp'.id \in DOMAIN tasks)
       => LET t == resp'.id
              u == resp'.user
              allowed ==
                  \/ projects[tasks[t].project_id].owner_id = u
                  \/ tasks[t].assigned_user_id = u
          IN  /\ resp'.status = 403 <=> ~allowed
              /\ resp'.status = 200 => allowed
              /\ (allowed /\ resp'.op = "get_task") => resp'.status = 200
              /\ (allowed /\ resp'.op = "update_task") =>
                    resp'.status =
                        IF TaskBodyAccepted(resp'.args) THEN 200 ELSE 500]_vars

\* the assignee of a task, who does not own its project, updated it
C4_Witness ==
    /\ resp.op = "update_task"
    /\ resp.status = 200
    /\ resp.args.assigned_user_id = UNSET
    /\ tasks[resp.id].assigned_user_id = resp.user
    /\ projects[tasks[resp.id].project_id].owner_id # resp.user

\* C5: on a stored project, get_project, update_project and delete_project
\* succeed only for the project's owner; any other user gets 403 and
\* nothing changes; get_projects returns exactly the projects the acting
\* user owns, each once.
C5_ProjectOwnerOnly ==
    /\ [][(resp'.op \in ProjectOps /\ resp'.id \in DOMAIN projects)
          => IF projects[resp'.id].owner_id = resp'.user
             THEN resp'.status # 403
             ELSE /\ resp'.status = 403
                  /\ projects' = projects
                  /\ tasks' = tasks]_vars
    /\ [](resp.op = "get_projects" =>
            /\ resp.status = 200
            /\ SeqSet(resp.body) =
                 {p \in DOMAIN projects : projects[p].owner_id = resp.user}
            /\ Len(resp.body) = Cardinality(SeqSet(resp.body)))

\* a user was refused the deletion of a project another user owns
C5_Witness ==
    /\ resp.op = "delete_project"
    /\ resp.status = 403
    /\ resp.id \in DOMAIN projects
    /\ projects[resp.id].owner_id # resp.user

\* C6: a get, update or delete of a project or a task that answers 404 or
\* 403 leaves the users, projects and tasks as they were and makes no
\* notification call; a request for an id that is not stored answers 404
\* whoever asks.
C6_FailedRequestChangesNothing ==
    [][(resp'.op \in ProjectOps \cup TaskOps)
       => /\ resp'.status \in {403, 404} =>
                /\ users' = users
                /\ projects' = projects
                /\ tasks' = tasks
                /\ resp'.events = <<>>
          /\ (resp'.op \in ProjectOps /\ resp'.id \notin DOMAIN projects)
                => resp'.status = 404
          /\ (resp'.op \in TaskOps /\ resp'.id \notin DOMAIN tasks)
                => resp'.status = 404]_vars

\* an update of a stored task that names a new assignee was refused
C6_Witness ==
    /\ resp.op = "update_task"
    /\ resp.status = 403
    /\ resp.id \in DOMAIN tasks
    /\ resp.args.assigned_user_id \in DOMAIN users
    /\ resp.args.assigned_user_id # tasks[resp.id].assigned_user_id

\* C12: a create_task that succeeds makes exactly one notification call, an
\* assignment addressed to the stored task's assigned_user_id and naming
\* the task and the actor, when the task is assigned to a user other than
\* the actor; it makes none when the task is unassigned or assigned to the
\* actor.
C12_CreateTaskAssignmentEvent ==
    (resp.op = "create_task" /\ resp.status = 200)
    => LET t == resp.body[1]
           a == tasks[t].assigned_user_id
       IN  /\ a = resp.args.assigned_user_id
           /\ IF a # NULL /\ a # resp.user
              THEN /\ Len(resp.events) = 1
                   /\ resp.events[1].kind = "assignment"
                   /\ resp.events[1].task_id = t
                   /\ resp.events[1].target = a
                   /\ resp.events[1].actor = resp.user
              ELSE resp.events = <<>>

\* a task was created for another user, who is notified
C12_Witness ==
    /\ resp.op = "create_task"
    /\ resp.status = 200
    /\ tasks[resp.body[1]].assigned_user_id \in DOMAIN users \ {resp.user}
    /\ Len(resp.events) = 1

(***************************************************************************)
(* Properties of PATCH, checked under SpecUpdate.                          *)
(***************************************************************************)
IsStatusChange(e) == e.kind = "status_change"
IsAssignment(e) == e.kind = "assignment"

\* C13: an update_task that succeeds makes a status_change call exactly
\* when the task's status after the update differs from its status before
\* and the task, as updated, is assigned to a user other than the actor;
\* the call is made once, is addressed to that assignee and carries the
\* status before and the status after.
C13_StatusChangeEvent ==
    [][(resp'.op = "update_task" /\ resp'.status = 200)
       => LET t == resp'.id
              old == tasks[t]
              new == tasks'[t]
              sc == SelectSeq(resp'.events, IsStatusChange)
          IN  IF /\ old.status # new.status
                 /\ new.assigned_user_id # NULL
                 /\ new.assigned_user_id # resp'.user
              THEN /\ Len(sc) = 1
                   /\ sc[1].task_id = t
                   /\ sc[1].target = new.assigned_user_id
                   /\ sc[1].actor = resp'.user
                   /\ sc[1].old_status = old.status
                   /\ sc[1].new_status = new.status
              ELSE sc = <<>>]_vars

\* one update changed the status and the assignee, and the status change
\* went to the new assignee
C13_Witness ==
    /\ resp.op = "update_task"
    /\ resp.status = 200
    /\ resp.args.status # UNSET_S
    /\ resp.args.assigned_user_id \in DOMAIN users \ {resp.user}
    /\ \E i \in DOMAIN resp.events :
          /\ resp.events[i].kind = "status_change"
          /\ resp.events[i].target = resp.args.assigned_user_id

\* C14: an update_task that succeeds makes an assignment call exactly when
\* the task's assigned_user_id after the update is not null and differs
\* from the one before; the call is made once and is addressed to the new
\* assignee, whether or not a status_change call is made too: an update
\* that changes the status and the assignee makes both.
C14_AssignmentEventOnUpdate ==
    [][(resp'.op = "update_task" /\ resp'.status = 200)
       => LET t == resp'.id
              old == tasks[t]
              new == tasks'[t]
              as == SelectSeq(resp'.events, IsAssignment)
              assigned ==
                  /\ new.assigned_user_id # NULL
                  /\ new.assigned_user_id # old.assigned_user_id
          IN  /\ IF assigned
                 THEN /\ Len(as) = 1
                      /\ as[1].task_id = t
                      /\ as[1].target = new.assigned_user_id
                      /\ as[1].actor = resp'.user
                 ELSE as = <<>>
              /\ (/\ assigned
                  /\ old.status # new.status
                  /\ new.assigned_user_id # resp'.user)
                 => Len(resp'.events) = 2]_vars

\* one update made both calls
C14_Witness ==
    /\ resp.op = "update_task"
    /\ resp.status = 200
    /\ Len(resp.events) = 2
    /\ resp.events[1].kind = "status_change"
    /\ resp.events[2].kind = "assignment"

\* C15: an update_task or update_project that succeeds leaves the row with,
\* in every field of the payload, the value the body gives when the body
\* names the field and the value it had when the body leaves it out; the
\* columns no payload names (project_id, created_at, owner_id) keep their
\* values, updated_at apart; every other project and task, and the set of
\* rows, is as before.
C15_PartialUpdate ==
    /\ [][(resp'.op = "update_task" /\ resp'.status = 200)
          => LET t == resp'.id
                 upd == resp'.args
                 old == tasks[t]
                 new == tasks'[t]
             IN  /\ new.title = IF upd.title = UNSET_S THEN old.title
                                ELSE upd.title
                 /\ new.description =
                       IF upd.description = UNSET_S THEN old.description
                       ELSE upd.description
                 /\ new.status = IF upd.status = UNSET_S THEN old.status
                                 ELSE upd.status
                 /\ new.priority = IF upd.priority = UNSET_S THEN old.priority
                                   ELSE upd.priority
                 /\ new.due_date = IF upd.due_date = UNSET THEN old.due_date
                                   ELSE upd.due_date
                 /\ new.assigned_user_id =
                       IF upd.assigned_user_id = UNSET
                       THEN old.assigned_user_id ELSE upd.assigned_user_id
                 /\ new.project_id = old.project_id
                 /\ new.created_at = old.created_at
                 /\ DOMAIN tasks' = DOMAIN tasks
                 /\ \A o \in DOMAIN tasks \ {t} : tasks'[o] = tasks[o]
                 /\ projects' = projects
                 /\ users' = users]_vars
    /\ [][(resp'.op = "update_project" /\ resp'.status = 200)
          => LET p == resp'.id
                 upd == resp'.args
                 old == projects[p]
                 new == projects'[p]
             IN  /\ new.title = IF upd.title = UNSET_S THEN old.title
                                ELSE upd.title
                 /\ new.description =
                       IF upd.description = UNSET_S THEN old.description
                       ELSE upd.description
                 /\ new.owner_id = old.owner_id
                 /\ DOMAIN projects' = DOMAIN projects
                 /\ \A o \in DOMAIN projects \ {p} :
                       projects'[o] = projects[o]
                 /\ tasks' = tasks
                 /\ users' = users]_vars

\* an update that names the title, the status and the priority of an
\* assigned task: the task is still assigned
C15_Witness ==
    /\ resp.op = "update_task"
    /\ resp.status = 200
    /\ resp.args.title = "U"
    /\ resp.args.priority = "high"
    /\ resp.args.assigned_user_id = UNSET
    /\ tasks[resp.id].title = "U"
    /\ tasks[resp.id].assigned_user_id # NULL

\* C16: a stored task's created_at never changes and its updated_at never
\* decreases; every update_task that succeeds sets updated_at to the
\* instant of the request, and the task's updated_at is then later than
\* its created_at.
C16_TimestampsRefreshed ==
    [][/\ \A t \in DOMAIN tasks \cap DOMAIN tasks' :
             /\ tasks'[t].created_at = tasks[t].created_at
             /\ tasks'[t].updated_at >= tasks[t].updated_at
       /\ (resp'.op = "update_task" /\ resp'.status = 200)
             => /\ tasks'[resp'.id].updated_at = now'
                /\ tasks'[resp'.id].updated_at > tasks'[resp'.id].created_at
      ]_vars

\* C26: create_task of any registered user for a stored project (and an
\* assignee that is stored, if one is named) answers 200 and stores the
\* task in that project, whoever owns the project; the owner of the
\* project of a stored task sees the task in the listing, gets it with
\* get_task and deletes it with delete_task.
C26_CreateTaskUnauthorized ==
    /\ [][(/\ resp'.op = "create_task"
           /\ resp'.args.project_id \in DOMAIN projects
           /\ resp'.args.assigned_user_id \in {NULL} \cup DOMAIN users)
          => /\ resp'.status = 200
             /\ nextTaskId \in DOMAIN tasks' \ DOMAIN tasks
             /\ tasks'[nextTaskId].project_id = resp'.args.project_id]_vars
    /\ [][(/\ resp'.op \in {"get_task", "delete_task"}
           /\ resp'.id \in DOMAIN tasks
           /\ projects[tasks[resp'.id].project_id].owner_id = resp'.user)
          => /\ resp'.status = 200
             /\ resp'.op = "delete_task" => resp'.id \notin DOMAIN tasks']_vars
    /\ [](resp.op = "list_tasks" /\ resp.status = 200
          => \A t \in DOMAIN tasks :
                projects[tasks[t].project_id].owner_id = resp.user
                => t \in SeqSet(resp.body))

\* a user has created a task for nobody in a project of another user
C26_Witness ==
    /\ resp.op = "create_task"
    /\ resp.status = 200
    /\ resp.args.assigned_user_id = NULL
    /\ projects[resp.args.project_id].owner_id # resp.user
    /\ resp.body[1] \in DOMAIN tasks

\* C29: no request changes the project_id of a task that stays stored or
\* the owner_id of a project that stays stored, so the owner of a stored
\* task's project stays the same user; a new row takes an id no row has
\* had, so a row is never mistaken for an earlier one.
C29_ProjectAndOwnerFixed ==
    /\ [][\A t \in DOMAIN tasks \cap DOMAIN tasks' :
             /\ tasks'[t].project_id = tasks[t].project_id
             /\ projects'[tasks'[t].project_id].owner_id
                  = projects[tasks[t].project_id].owner_id]_vars
    /\ [][\A p \in DOMAIN projects \cap DOMAIN projects' :
             projects'[p].owner_id = projects[p].owner_id]_vars
    /\ [][/\ \A t \in DOMAIN tasks' \ DOMAIN tasks : t >= nextTaskId
          /\ \A p \in DOMAIN projects' \ DOMAIN projects :
                p >= nextProjectId]_vars
    /\ [](/\ \A t \in DOMAIN tasks : t < nextTaskId
          /\ \A p \in DOMAIN projects : p < nextProjectId)

\* a project that has a task has been renamed by an update
C29_Witness ==
    /\ resp.op = "update_project"
    /\ resp.status = 200
    /\ resp.args.title = "Q"
    /\ \E t \in DOMAIN tasks : tasks[t].project_id = resp.id

(***************************************************************************)
(* Properties of the notification jobs, checked under SpecJobs.            *)
(***************************************************************************)
\* C17: a job is executed 3 times at most for one enqueue.
C17_AtMostThreeAttempts ==
    \A i \in DOMAIN jobs : jobs[i].runs <= 3

\* C18: a job whose last execution failed to send the message at the
\* transport is waiting for a retry, with a delay of 60 * 2^n seconds after
\* n earlier retries, unless its retries are used up.
C18_TransportFailureRetried ==
    \A i \in DOMAIN jobs :
        jobs[i].last = "not_sent"
        => \/ /\ jobs[i].state = "retry"
              /\ jobs[i].countdown = 60 * (2 ^ (jobs[i].retries - 1))
           \/ /\ jobs[i].state = "failed"
              /\ jobs[i].retries = max_retries

\* the task, the target user, the acting user or the task's project of an
\* assignment or status-change job is not stored
MissingEntity(j) ==
    \/ j.task_id \notin DOMAIN tasks
    \/ j.user_id \notin DOMAIN users
    \/ j.by_id \notin DOMAIN users
    \/ /\ j.task_id \in DOMAIN tasks
       /\ tasks[j.task_id].project_id \notin DOMAIN projects

\* C19: an execution of an assignment or status-change job that reads the
\* store and finds the task, the target user, the acting user or the
\* task's project missing returns False, sends no message and asks for no
\* retry; a job that has returned is never executed again.
C19_MissingEntityNotRetried ==
    [][\A i \in DOMAIN jobs :
          jobs[i].kind \in {"assignment", "status_change"}
          => /\ (/\ jobs'[i].runs = jobs[i].runs + 1
                 /\ jobs'[i].last # "db_error"
                 /\ MissingEntity(jobs[i]))
                => /\ jobs'[i].state = "returned"
                   /\ jobs'[i].result = "False"
                   /\ jobs'[i].sent = jobs[i].sent
                   /\ jobs'[i].retries = jobs[i].retries
             /\ jobs[i].state = "returned" => jobs'[i] = jobs[i]]_vars

\* an assignment job whose task is not stored has returned False on its
\* first execution
C19_Witness ==
    \E i \in DOMAIN jobs :
        /\ jobs[i].kind = "assignment"
        /\ jobs[i].task_id \notin DOMAIN tasks
        /\ jobs[i].runs = 1
        /\ jobs[i].state = "returned"
        /\ jobs[i].result = "False"

\* a job that will not be executed again
C28_Stopped(j) == j.state \in {"returned", "failed"}

\* C28: with a running worker every enqueued job stops: it returns (True
\* after sending, False otherwise) or is abandoned when its retries are
\* used up; no job is retried more than max_retries times, and no step
\* takes a job off the queue or changes a job that has stopped.
C28_EveryJobStops ==
    /\ \A i \in 1..MaxJobs :
          (i \in DOMAIN jobs) ~> (i \in DOMAIN jobs /\ C28_Stopped(jobs[i]))
    /\ [](\A i \in DOMAIN jobs :
             /\ jobs[i].retries <= max_retries
             /\ jobs[i].runs <= max_retries + 1
             /\ jobs[i].state = "failed" => jobs[i].retries = max_retries
             /\ jobs[i].state = "returned" => jobs[i].result \in {"True", "False"})
    /\ [][\A i \in DOMAIN jobs :
             /\ i \in DOMAIN jobs'
             /\ C28_Stopped(jobs[i]) => jobs'[i] = jobs[i]]_vars

\* a summary job has used up its retries and is abandoned
C28_Witness ==
    \E i \in DOMAIN jobs :
        /\ jobs[i].kind = "overdue_summary"
        /\ jobs[i].state = "failed"
        /\ jobs[i].retries = max_retries
        /\ jobs[i].runs = max_retries + 1

(***************************************************************************)
(* Properties of the mutations next to the jobs, checked under SpecNotify. *)
(***************************************************************************)
\* C20: a notification call is made only by a create_task or update_task
\* that has committed and answers 200, and it describes the task as
\* stored; a create_task or update_task that has changed the tasks answers
\* 200; and no step of a notification job, whether it is enqueued, sends,
\* fails or is abandoned, changes the users, projects or tasks or the
\* response of a request.
C20_NotificationNotADependency ==
    /\ [](resp.events # <<>> =>
            /\ resp.op \in {"create_task", "update_task"}
            /\ resp.status = 200
            /\ \A i \in DOMAIN resp.events :
                  LET e == resp.events[i]
                  IN  /\ e.task_id \in DOMAIN tasks
                      /\ tasks[e.task_id].assigned_user_id = e.target
                      /\ e.kind = "status_change" =>
                            tasks[e.task_id].status = e.new_status)
    /\ [][(resp'.op \in {"create_task", "update_task"} /\ tasks' # tasks)
          => resp'.status = 200]_vars
    /\ [][jobs' # jobs =>
            /\ users' = users
            /\ projects' = projects
            /\ tasks' = tasks
            /\ resp' = resp]_vars

\* an update has notified and answered 200, and a notification job has
\* been abandoned since
C20_Witness ==
    /\ resp.op = "update_task"
    /\ resp.status = 200
    /\ resp.events # <<>>
    /\ \E i \in DOMAIN jobs : jobs[i].state = "failed"

\* C21: when a request has emitted notification events, each of them has
\* its job on the queue of the dispatcher: a job of the event's kind for the
\* same task, target and actor.
C21_EventsReachDispatcher ==
    \A i \in DOMAIN resp.events :
        LET e == resp.events[i]
        IN  \E k \in DOMAIN jobs :
                /\ jobs[k].kind = e.kind
                /\ jobs[k].task_id = e.task_id
                /\ jobs[k].user_id = e.target
                /\ jobs[k].by_id = e.actor

(***************************************************************************)
(* Properties of concurrent registrations, checked under SpecRegister.     *)
(***************************************************************************)
\* C25: no two stored users have the same address, whatever the
\* interleaving of the registrations; a registration for an address that a
\* stored user holds does not get past the check, and what it gets there
\* is a 400 that leaves the users as they are.
C25_EmailsUnique ==
    /\ [](\A u1, u2 \in DOMAIN users :
             users[u1].email = users[u2].email => u1 = u2)
    /\ [][\A w \in Workers :
             (flight[w].pc = "idle" /\ flight'[w].pc = "insert")
             => \A u \in DOMAIN users : users[u].email # flight'[w].email]_vars
    /\ [][(flight' = flight /\ resp'.op = "register")
           => /\ resp'.status = 400
              /\ users' = users
              /\ \E u \in DOMAIN users : users[u].email = resp'.args.email]_vars

\* two registrations for one address have both passed the check: one has
\* stored its user and the other has been refused by the store
C25_Witness ==
    /\ resp.op = "register"
    /\ resp.status = 500
    /\ Cardinality({u \in DOMAIN users :
                      users[u].email = resp.args.email}) = 1

(***************************************************************************)
(* Properties of concurrent updates, checked under SpecRace.               *)
(***************************************************************************)
\* C27: an update_task that commits and answers 200 leaves in the stored
\* row, for each field its body names, the value of its body: the request
\* that commits last wins every field it writes.
C27_LastWriteWins ==
    [][\A w \in Workers :
          (/\ flight[w].pc = "commit"
           /\ flight'[w].pc = "idle"
           /\ resp'.status = 200)
          => \A f \in NamedFields(flight[w].upd) :
                tasks'[flight[w].id][f] = flight[w].upd[f]]_vars

\* C30: an update_task that writes a task is the request of a user who,
\* when it commits, owns the task's project or is the task's assignee.
C30_AuthorizedAtCommit ==
    [][\A w \in Workers :
          (/\ flight[w].pc = "commit"
           /\ flight'[w].pc = "idle"
           /\ tasks' # tasks)
          => \/ projects[tasks[flight[w].id].project_id].owner_id
                  = flight[w].user
             \/ tasks[flight[w].id].assigned_user_id = flight[w].user]_vars

(***************************************************************************)
(* Properties of repeated deliveries, checked under SpecRedeliver.         *)
(***************************************************************************)
\* the execution has come to the point of sending the message
C24_ReachedSend(j) == j.last \in {"sent", "not_sent"}

\* C24: an assignment or status-change job that has returned and whose
\* message is delivered again changes no user, project or task and raises
\* no error of its own; while the database answers it ends as before: it
\* returns False for the same missing entity, or it comes to send the
\* message again and returns what the transport allows.
C24_SecondDeliverySameOutcome ==
    [][\A i \in DOMAIN jobs :
          (/\ jobs[i].kind \in {"assignment", "status_change"}
           /\ jobs[i].state = "returned"
           /\ jobs'[i].runs = jobs[i].runs + 1)
          => /\ users' = users /\ projects' = projects /\ tasks' = tasks
             /\ jobs'[i].last # "error"
             /\ jobs'[i].last # "db_error"
                  => /\ jobs'[i].state = "returned"
                     /\ jobs'[i].retries = jobs[i].retries
                     /\ C24_ReachedSend(jobs'[i]) = C24_ReachedSend(jobs[i])
                     /\ (jobs'[i].last = "missing") = (jobs[i].last = "missing")
                     /\ (jobs'[i].result = "True") = (jobs'[i].last = "sent")
                     /\ jobs'[i].last = jobs[i].last
                          => jobs'[i].result = jobs[i].result]_vars

\* a status-change message has been delivered twice and sent twice
C24_Witness ==
    \E i \in DOMAIN jobs :
        /\ jobs[i].kind = "status_change"
        /\ jobs[i].state = "returned"
        /\ jobs[i].retries = 0
        /\ jobs[i].runs = 2
        /\ jobs[i].sent = 2

(***************************************************************************)
(* Properties of the daily summary, checked under SpecDaily.               *)
(***************************************************************************)
\* the overdue set of a user
C22_OverdueSet(u) ==
    {t \in DOMAIN tasks :
        /\ (projects[tasks[t].project_id].owner_id = u
            \/ tasks[t].assigned_user_id = u)
        /\ tasks[t].due_date \in Instants
        /\ DayOf(tasks[t].due_date) < DayOf(now)
        /\ tasks[t].status \in TaskStatus \ {"done"}}

\* C22: a run of the daily summary that meets no exception has enqueued
\* one summary job for each user whose overdue set is not empty and none
\* for the others, each job with exactly the ids of that set; emails_sent
\* is the number of those users and total_overdue_tasks the sum of the
\* sizes of their sets.
C22_OneSummaryPerOverdueUser ==
    (resp.op = "daily_summary" /\ resp.args.fail = 0)
    => LET due == {u \in DOMAIN users : C22_OverdueSet(u) # {}}
       IN  /\ Len(jobs) = Cardinality(due)
           /\ \A u \in due :
                 \E i \in DOMAIN jobs :
                     /\ jobs[i].kind = "overdue_summary"
                     /\ jobs[i].user_id = u
                     /\ jobs[i].task_ids = C22_OverdueSet(u)
                     /\ jobs[i].state = "queued"
           /\ resp.body[1] = Cardinality(due)
           /\ resp.body[2] =
                 Cardinality({ut \in (DOMAIN users) \X (DOMAIN tasks) :
                                ut[2] \in C22_OverdueSet(ut[1])})

\* a run has enqueued a summary for the owner of the project and one for
\* the assignee of its overdue task, who owns no project
C22_Witness ==
    /\ resp.op = "daily_summary"
    /\ resp.args.fail = 0
    /\ Len(jobs) = 2
    /\ resp.body = <<2, 2>>
    /\ \E i \in DOMAIN jobs :
          \A p \in DOMAIN projects : projects[p].owner_id # jobs[i].user_id

\* C23: after a run of the daily summary in which handling one user has
\* failed, every other user whose overdue set is not empty has their
\* summary job on the queue.
C23_FailureOfOneUserIsolated ==
    (resp.op = "daily_summary" /\ resp.args.fail # 0)
    => \A u \in DOMAIN users \ {resp.args.order[resp.args.fail]} :
          C22_OverdueSet(u) # {}
          => \E i \in DOMAIN jobs :
                 /\ jobs[i].kind = "overdue_summary"
                 /\ jobs[i].user_id = u
                 /\ jobs[i].task_ids = C22_OverdueSet(u)

(***************************************************************************)
(* Properties of GET /tasks/, checked under SpecQuery.                     *)
(***************************************************************************)
\* the tasks whose project the user owns or that are assigned to the user
VisibleTasks(u) ==
    {t \in DOMAIN tasks :
        \/ projects[tasks[t].project_id].owner_id = u
        \/ tasks[t].assigned_user_id = u}

\* an answered listing whose page holds every selected row
WholeListing ==
    /\ resp.op = "list_tasks"
    /\ resp.status = 200
    /\ resp.args.offset = 0
    /\ resp.args.limit >= Cardinality(DOMAIN tasks)

\* C7: with no filter given, offset 0 and a limit of at least the number
\* of stored tasks, the listing returns exactly the tasks whose project the
\* user owns or that are assigned to the user, each once.
C7_ListIsUnionOfOwnedAndAssigned ==
    (/\ WholeListing
     /\ resp.args.status = NONE
     /\ resp.args.priority = NONE
     /\ resp.args.due_date = NoDate
     /\ resp.args.project_id = NULL)
    => /\ SeqSet(resp.body) = VisibleTasks(resp.user)
       /\ Len(resp.body) = Cardinality(VisibleTasks(resp.user))

\* a listing that returns a task its user sees as the assignee only
C7_Witness ==
    /\ WholeListing
    /\ resp.args = DefaultQuery
    /\ \E t \in SeqSet(resp.body) :
          /\ projects[tasks[t].project_id].owner_id # resp.user
          /\ tasks[t].assigned_user_id = resp.user

\* C8: a listing with status=s returns exactly the visible tasks whose
\* status is s, and the same for priority=p and project_id=p.
C8_EqualityFilters ==
    (WholeListing /\ resp.args.due_date = NoDate)
    => SeqSet(resp.body) =
         {t \in VisibleTasks(resp.user) :
            /\ resp.args.status # NONE => tasks[t].status = resp.args.status
            /\ resp.args.priority # NONE =>
                  tasks[t].priority = resp.args.priority
            /\ resp.args.project_id # NULL =>
                  tasks[t].project_id = resp.args.project_id}

\* C9: a sort_by that is given and is neither priority nor due_date, the
\* empty string included, is answered 400.
C9_InvalidSortByRejected ==
    (/\ resp.op = "list_tasks"
     /\ resp.args.sort_by # NONE
     /\ resp.args.sort_by \notin {"priority", "due_date"})
    => resp.status = 400

\* C10: a listing with due_date = day D returns every visible task whose
\* due timestamp falls on day D, whatever its time of day, and no other.
C10_DueDateMatchesCalendarDay ==
    (/\ WholeListing
     /\ resp.args.due_date.fmt = "YYYY-MM-DD"
     /\ resp.args.status = NONE
     /\ resp.args.priority = NONE
     /\ resp.args.project_id = NULL)
    => SeqSet(resp.body) =
         {t \in VisibleTasks(resp.user) :
            /\ tasks[t].due_date # NULL
            /\ DayOf(tasks[t].due_date) = resp.args.due_date.day}

====
